---------------------------- MODULE Spec2Model ----------------------------
(***************************************************************************)
(* r2c: fetches the tag list and the changelog of a repository, attaches   *)
(* the changelog's entries to the releases of the tag list and writes the  *)
(* merged list to r2c.json.                                                *)
(*                                                                         *)
(* A Go string is modelled as the sequence of its characters (each a       *)
(* one-character string), so that indexing, slicing, trimming, substring   *)
(* search and the version regexp are computed as the code computes them.   *)
(***************************************************************************)
EXTENDS Integers, Sequences, FiniteSets, TLC

(***************************************************************************)
(* Bounds                                                                  *)
(***************************************************************************)
\* number of lines the scanner returns before the end of the changelog
MaxLines == 4

(***************************************************************************)
(* Characters and strings                                                  *)
(***************************************************************************)
\* the vertical tab has no TLA+ escape: this token stands for "\v"
VT == "\\v"

\* the cutset of strings.TrimRight at r2c.go:144
Cutset == {" ", "\t", "\n", VT, "\f", "\r"}

\* unicode.IsSpace on the characters of the model: what strings.TrimSpace cuts
IsSpace(c) == c \in Cutset

RECURSIVE TrimRight(_, _)
TrimRight(s, cutset) ==
    IF Len(s) > 0 /\ s[Len(s)] \in cutset
    THEN TrimRight(SubSeq(s, 1, Len(s) - 1), cutset)
    ELSE s

RECURSIVE TrimLeftSpace(_)
TrimLeftSpace(s) ==
    IF Len(s) > 0 /\ IsSpace(s[1])
    THEN TrimLeftSpace(SubSeq(s, 2, Len(s)))
    ELSE s

TrimSpace(s) == TrimLeftSpace(TrimRight(s, Cutset))

\* strings.Contains
Contains(s, substr) ==
    \E i \in 1..(Len(s) - Len(substr) + 1) :
        SubSeq(s, i, i + Len(substr) - 1) = substr

IsDigit(c) == c \in {"0", "1", "2", "3", "4", "5", "6", "7", "8", "9"}

\* the index after the longest run of digits of s that starts at i
RECURSIVE digitsEnd(_, _)
digitsEnd(s, i) ==
    IF i <= Len(s) /\ IsDigit(s[i]) THEN digitsEnd(s, i + 1) ELSE i

\* [0-9]+\.[0-9]+\.[0-9]+ matched at position i of s: the index after the
\* match, 0 when there is no match at i.  Each [0-9]+ is greedy and is
\* followed by a character that is no digit, so it takes the whole run.
matchAt(s, i) ==
    LET a == digitsEnd(s, i)
        b == digitsEnd(s, a + 1)
        c == digitsEnd(s, b + 1)
    IN  IF /\ a > i /\ a <= Len(s) /\ s[a] = "."
           /\ b > a + 1 /\ b <= Len(s) /\ s[b] = "."
           /\ c > b + 1
        THEN c ELSE 0

\* validVersion.MatchString
validVersionMatchString(s) == \E i \in 1..Len(s) : matchAt(s, i) # 0

\* validVersionFind that returns the last match instead of the first
validVersionFindLast(s) ==
    IF validVersionMatchString(s)
    THEN LET i == CHOOSE k \in 1..Len(s) :
                    /\ matchAt(s, k) # 0
                    /\ \A j \in (k + 1)..Len(s) :
                          matchAt(s, j) = 0 \/ matchAt(s, j) = matchAt(s, k)
                    /\ \A j \in 1..(k - 1) : matchAt(s, j) # matchAt(s, k)
         IN  SubSeq(s, i, matchAt(s, i) - 1)
    ELSE <<>>

\* string(validVersion.Find([]byte(s))): the leftmost match, "" when none
validVersionFind(s) ==
    IF validVersionMatchString(s)
    THEN LET i == CHOOSE k \in 1..Len(s) :
                    /\ matchAt(s, k) # 0
                    /\ \A j \in 1..(k - 1) : matchAt(s, j) = 0
         IN  SubSeq(s, i, matchAt(s, i) - 1)
    ELSE <<>>

(***************************************************************************)
(* Data: Release, ReleaseNotes and the tag lists the store is loaded from  *)
(***************************************************************************)
\* a nil *ReleaseNotes is the empty sequence, a non-nil one a sequence of
\* one record
NilNotes == <<>>

\* &ReleaseNotes{}
EmptyNotes ==
    [ReleaseName |-> <<>>, Version |-> <<>>, Fixes |-> <<>>,
     Features |-> <<>>, Maintenance |-> <<>>, Changes |-> <<>>]

\* a Release as json.Unmarshal builds it from one tag object
Tag(nm, url) ==
    [Name |-> nm, ZipballUrl |-> url \o "/zip", TarballUrl |-> url \o "/tar",
     Commit |-> [Sha |-> url \o "#sha", Url |-> url \o "/commit"],
     ReleaseNotes |-> NilNotes]

v24 == <<"v","2","4",".","0",".","0">>
v23 == <<"v","2","3",".","0",".","0">>

\* the tag arrays the tags endpoint answers with in the model: none, one or
\* two tags, a name that occurs twice, and a tag without a name
TagLists ==
    { <<>>,
      <<Tag(v24, "a")>>,
      <<Tag(v24, "a"), Tag(v23, "b")>>,
      <<Tag(v24, "a"), Tag(v24, "c")>>,
      <<Tag(<<>>, "e")>>,
      <<Tag(v23, "b"), Tag(<<>>, "e")>> }

(***************************************************************************)
(* The lines of the changelog                                              *)
(***************************************************************************)
L_jest24 == <<"#","#"," ","j","e","s","t"," ","2","4",".","0",".","0">>
L_jest23 == <<"#","#"," ","j","e","s","t"," ","2","3",".","0",".","0">>
L_Fixes  == <<"#","#","#"," ","F","i","x","e","s">>
L_fixed  == <<"*"," ","f","i","x","e","d"," ","t","h","e"," ","t","h","i","n","g">>
L_first  == <<"*"," ","f","i","r","s","t"," ","l","i","n","e">>
L_second == <<"s","e","c","o","n","d"," ","l","i","n","e">>
L_Other  == <<"#","#","#"," ","O","t","h","e","r">>
L_blank  == <<>>

\* what scanner.Text() returns in the model
Lines ==
    {L_jest24, L_jest23, L_Fixes, L_fixed, L_first, L_second, L_Other, L_blank}

(***************************************************************************)
(* State                                                                   *)
(***************************************************************************)
VARIABLES
    pc,            \* the statement of main that runs next
    fatalAt,       \* the step whose error reached log.Fatalln, "" if none
    tagsResp,      \* how the GET of tagsURL ended
    changelogResp, \* how the GET of changelogURL ended
    releases,      \* var releases []Release
    changelog,     \* the lines the scanner has returned so far
    locals,        \* parseChangelog's release, name, comment and flags
    written        \* r2c.json has been written

vars == <<pc, fatalAt, tagsResp, changelogResp, releases, changelog,
          locals, written>>

(***************************************************************************)
(* The Release Store: insertFix, insertFeature, insertMaintenance and      *)
(* insertChange.  rs is the global releases the function works on.         *)
(***************************************************************************)
\* releases[i].ReleaseNotes after the nil check at r2c.go:83-85
notesOf(r) == IF r.ReleaseNotes = NilNotes THEN EmptyNotes ELSE r.ReleaseNotes[1]

insertFix(rs, release, name, line) ==
    [i \in DOMAIN rs |->
        IF rs[i].Name = name
        THEN [rs[i] EXCEPT !.ReleaseNotes =
                <<[notesOf(rs[i]) EXCEPT !.ReleaseName = release,
                                         !.Version = name,
                                         !.Fixes = Append(@, line)]>>]
        ELSE rs[i]]

insertFeature(rs, release, name, line) ==
    [i \in DOMAIN rs |->
        IF rs[i].Name = name
        THEN [rs[i] EXCEPT !.ReleaseNotes =
                <<[notesOf(rs[i]) EXCEPT !.ReleaseName = release,
                                         !.Version = name,
                                         !.Features = Append(@, line)]>>]
        ELSE rs[i]]

insertMaintenance(rs, release, name, line) ==
    [i \in DOMAIN rs |->
        IF rs[i].Name = name
        THEN [rs[i] EXCEPT !.ReleaseNotes =
                <<[notesOf(rs[i]) EXCEPT !.ReleaseName = release,
                                         !.Version = name,
                                         !.Maintenance = Append(@, line)]>>]
        ELSE rs[i]]

\* insertChange that creates the release when no release has the name
insertChangeUpsert(rs, release, name, line) ==
    IF \E i \in DOMAIN rs : rs[i].Name = name
    THEN [i \in DOMAIN rs |->
            IF rs[i].Name = name
            THEN [rs[i] EXCEPT !.ReleaseNotes =
                    <<[notesOf(rs[i]) EXCEPT !.ReleaseName = release,
                                             !.Version = name,
                                             !.Changes = Append(@, line)]>>]
            ELSE rs[i]]
    ELSE Append(rs, [Name |-> name, ZipballUrl |-> "", TarballUrl |-> "",
                     Commit |-> [Sha |-> "", Url |-> ""],
                     ReleaseNotes |->
                        <<[EmptyNotes EXCEPT !.ReleaseName = release,
                                             !.Version = name,
                                             !.Changes = <<line>>]>>])

\* insertChange that matches every release whose name starts with `name`
insertChangePrefix(rs, release, name, line) ==
    [i \in DOMAIN rs |->
        IF Len(rs[i].Name) >= Len(name) /\ SubSeq(rs[i].Name, 1, Len(name)) = name
        THEN [rs[i] EXCEPT !.ReleaseNotes =
                <<[notesOf(rs[i]) EXCEPT !.ReleaseName = release,
                                         !.Version = name,
                                         !.Changes = Append(@, line)]>>]
        ELSE rs[i]]

\* insertChange that puts the new entry in front
insertChangePrepend(rs, release, name, line) ==
    [i \in DOMAIN rs |->
        IF rs[i].Name = name
        THEN [rs[i] EXCEPT !.ReleaseNotes =
                <<[notesOf(rs[i]) EXCEPT !.ReleaseName = release,
                                         !.Version = name,
                                         !.Changes = <<line>> \o @]>>]
        ELSE rs[i]]

\* insertChange without the nil check: the notes are created anew each time
insertChangeFreshNotes(rs, release, name, line) ==
    [i \in DOMAIN rs |->
        IF rs[i].Name = name
        THEN [rs[i] EXCEPT !.ReleaseNotes =
                <<[EmptyNotes EXCEPT !.ReleaseName = release,
                                     !.Version = name,
                                     !.Changes = Append(@, line)]>>]
        ELSE rs[i]]

\* insertChange that stores the heading as version and the tag as name
insertChangeSwapped(rs, release, name, line) ==
    [i \in DOMAIN rs |->
        IF rs[i].Name = name
        THEN [rs[i] EXCEPT !.ReleaseNotes =
                <<[notesOf(rs[i]) EXCEPT !.ReleaseName = name,
                                         !.Version = release,
                                         !.Changes = Append(@, line)]>>]
        ELSE rs[i]]

insertChange(rs, release, name, line) ==
    [i \in DOMAIN rs |->
        IF rs[i].Name = name
        THEN [rs[i] EXCEPT !.ReleaseNotes =
                <<[notesOf(rs[i]) EXCEPT !.ReleaseName = release,
                                         !.Version = name,
                                         !.Changes = Append(@, line)]>>]
        ELSE rs[i]]

(***************************************************************************)
(* parseChangelog                                                          *)
(***************************************************************************)
\* the locals of parseChangelog as declared at r2c.go:135-140
InitLocals ==
    [release |-> <<>>, name |-> <<>>, comment |-> <<>>,
     fixes |-> FALSE, features |-> FALSE, maintenance |-> FALSE]

HasPrefix(line, n, prefix) == Len(line) >= n /\ SubSeq(line, 1, n) = prefix

\* "handle buffered comments": the store after r2c.go:154-164
flushComment(rs, l) ==
    IF l.comment # <<>>
    THEN IF l.fixes THEN insertFix(rs, l.release, l.name, l.comment)
         ELSE IF l.features THEN insertFeature(rs, l.release, l.name, l.comment)
         ELSE IF l.maintenance
              THEN insertMaintenance(rs, l.release, l.name, l.comment)
         ELSE insertChange(rs, l.release, l.name, l.comment)
    ELSE rs

\* releaseHeading without the reset of comment at r2c.go:170
releaseHeadingKeepsComment(l, line) ==
    IF Len(line) >= 3 /\ SubSeq(line, 1, 3) = <<"#", "#", " ">>
    THEN LET rel == SubSeq(line, 4, Len(line))
         IN  [release |-> rel,
              name |-> <<"v">> \o validVersionFind(rel),
              comment |-> l.comment,
              fixes |-> FALSE, features |-> FALSE, maintenance |-> FALSE]
    ELSE l

\* releaseHeading without the reset of the flags at r2c.go:171-173
releaseHeadingKeepsFlags(l, line) ==
    IF Len(line) >= 3 /\ SubSeq(line, 1, 3) = <<"#", "#", " ">>
    THEN LET rel == SubSeq(line, 4, Len(line))
         IN  [release |-> rel,
              name |-> <<"v">> \o validVersionFind(rel),
              comment |-> <<>>,
              fixes |-> l.fixes, features |-> l.features,
              maintenance |-> l.maintenance]
    ELSE l

\* "Releases": the locals after r2c.go:166-174
releaseHeading(l, line) ==
    IF HasPrefix(line, 3, <<"#", "#", " ">>)
    THEN LET rel == SubSeq(line, 4, Len(line))
         IN  [release |-> rel,
              name |-> <<"v">> \o validVersionFind(rel),
              comment |-> <<>>,
              fixes |-> FALSE, features |-> FALSE, maintenance |-> FALSE]
    ELSE l

\* categoryHeading that looks for "Features" before "Fixes"
categoryHeadingFeaturesFirst(l, line) ==
    IF Len(line) >= 4 /\ SubSeq(line, 1, 4) = <<"#", "#", "#", " ">>
    THEN IF Contains(line, <<"F","e","a","t","u","r","e","s">>)
         THEN [l EXCEPT !.comment = <<>>, !.fixes = FALSE,
                        !.features = TRUE, !.maintenance = FALSE]
         ELSE IF Contains(line, <<"F","i","x","e","s">>)
         THEN [l EXCEPT !.comment = <<>>, !.fixes = TRUE,
                        !.features = FALSE, !.maintenance = FALSE]
         ELSE IF Contains(line, <<"C","h","o","r","e"," ","&"," ",
                                  "M","a","i","n","t","e","n","a","n","c","e">>)
         THEN [l EXCEPT !.comment = <<>>, !.fixes = FALSE,
                        !.features = FALSE, !.maintenance = TRUE]
         ELSE l
    ELSE l

\* "Fixes / Features / Maintenance": the locals after r2c.go:179-196
categoryHeading(l, line) ==
    IF HasPrefix(line, 4, <<"#", "#", "#", " ">>)
    THEN IF Contains(line, <<"F","i","x","e","s">>)
         THEN [l EXCEPT !.comment = <<>>, !.fixes = TRUE,
                        !.features = FALSE, !.maintenance = FALSE]
         ELSE IF Contains(line, <<"F","e","a","t","u","r","e","s">>)
         THEN [l EXCEPT !.comment = <<>>, !.fixes = FALSE,
                        !.features = TRUE, !.maintenance = FALSE]
         ELSE IF Contains(line, <<"C","h","o","r","e"," ","&"," ",
                                  "M","a","i","n","t","e","n","a","n","c","e">>)
         THEN [l EXCEPT !.comment = <<>>, !.fixes = FALSE,
                        !.features = FALSE, !.maintenance = TRUE]
         ELSE l
    ELSE l

\* "Comments": the locals after r2c.go:198-200
bulletLine(l, line) ==
    IF HasPrefix(line, 2, <<"*", " ">>)
    THEN [l EXCEPT !.comment = SubSeq(line, 3, Len(line))]
    ELSE l

\* loopBody that flushes after the release heading is read: the buffered
\* comment goes to the release and heading of the line being read
loopBodyFlushesLate(rs, l, text) ==
    LET line == TrimRight(text, Cutset)
    IN  IF Len(line) = 0
        THEN [releases |-> rs, locals |-> l]
        ELSE IF Len(line) >= 1 /\ line[1] # "#" /\ line[1] # "*"
        THEN [releases |-> rs,
              locals |-> [l EXCEPT !.comment = @ \o <<"\n">> \o TrimSpace(line)]]
        ELSE LET l1 == releaseHeading(l, line)
                 flushed == flushComment(rs, [l EXCEPT !.release = l1.release,
                                                       !.name = l1.name])
             IN  IF ~validVersionMatchString(l1.release)
                 THEN [releases |-> flushed, locals |-> l1]
                 ELSE [releases |-> flushed,
                       locals |-> bulletLine(categoryHeading(l1, line), line)]

\* loopBody that trims the line on both sides before it classifies it
loopBodyTrimsBoth(rs, l, text) ==
    LET line == TrimSpace(text)
    IN  IF Len(line) = 0
        THEN [releases |-> rs, locals |-> l]
        ELSE IF Len(line) >= 1 /\ line[1] # "#" /\ line[1] # "*"
        THEN [releases |-> rs,
              locals |-> [l EXCEPT !.comment = @ \o <<"\n">> \o TrimSpace(line)]]
        ELSE LET flushed == flushComment(rs, l)
                 l1 == releaseHeading(l, line)
             IN  IF ~validVersionMatchString(l1.release)
                 THEN [releases |-> flushed, locals |-> l1]
                 ELSE [releases |-> flushed,
                       locals |-> bulletLine(categoryHeading(l1, line), line)]

\* loopBody that empties comment once it is flushed
loopBodyClearsAfterFlush(rs, l, text) ==
    LET line == TrimRight(text, Cutset)
    IN  IF Len(line) = 0
        THEN [releases |-> rs, locals |-> l]
        ELSE IF Len(line) >= 1 /\ line[1] # "#" /\ line[1] # "*"
        THEN [releases |-> rs,
              locals |-> [l EXCEPT !.comment = @ \o <<"\n">> \o TrimSpace(line)]]
        ELSE LET flushed == flushComment(rs, l)
                 l1 == releaseHeading([l EXCEPT !.comment = <<>>], line)
             IN  IF ~validVersionMatchString(l1.release)
                 THEN [releases |-> flushed, locals |-> l1]
                 ELSE [releases |-> flushed,
                       locals |-> bulletLine(categoryHeading(l1, line), line)]

\* one iteration of the scanner loop, r2c.go:143-201, on the line `text`
\* that scanner.Text() returned: the store and the locals after it
loopBody(rs, l, text) ==
    LET line == TrimRight(text, Cutset)
    IN  IF Len(line) = 0
        THEN [releases |-> rs, locals |-> l]
        ELSE IF Len(line) >= 1 /\ line[1] # "#" /\ line[1] # "*"
        THEN [releases |-> rs,
              locals |-> [l EXCEPT !.comment = @ \o <<"\n">> \o TrimSpace(line)]]
        ELSE LET flushed == flushComment(rs, l)
                 l1 == releaseHeading(l, line)
             IN  IF ~validVersionMatchString(l1.release)
                 THEN [releases |-> flushed, locals |-> l1]
                 ELSE [releases |-> flushed,
                       locals |-> bulletLine(categoryHeading(l1, line), line)]

\* parseChangelog, r2c.go:132-202, on a whole text: the store and the locals
\* when the scanner has returned every line of `text`
RECURSIVE parseFrom(_, _, _)
parseFrom(rs, l, text) ==
    IF text = <<>>
    THEN [releases |-> rs, locals |-> l]
    ELSE LET after == loopBody(rs, l, Head(text))
         IN  parseFrom(after.releases, after.locals, Tail(text))

parseChangelog(rs, text) == parseFrom(rs, InitLocals, text)

(***************************************************************************)
(* main                                                                    *)
(***************************************************************************)
\* how a GET can end: http.Get fails, reading the body fails, or a response
\* arrives whose status is a success or not
Responses == {"transportError", "readError", "non2xx", "2xx"}

\* wget that drops the error of ioutil.ReadAll
wgetErrGetOnly(resp) == resp = "transportError"

\* wget's err, r2c.go:38-49: set by http.Get and by ioutil.ReadAll only
wgetErr(resp) == resp \in {"transportError", "readError"}

Init ==
    /\ pc = "fetchTags"
    /\ fatalAt = ""
    /\ tagsResp = "none"
    /\ changelogResp = "none"
    /\ releases = <<>>
    /\ changelog = <<>>
    /\ locals = InitLocals
    /\ written = FALSE

\* r2c.go:209-212
FetchTags ==
    /\ pc = "fetchTags"
    /\ \E resp \in Responses :
        /\ tagsResp' = resp
        /\ IF wgetErr(resp)
           THEN pc' = "fatal" /\ fatalAt' = "fetchTags"
           ELSE pc' = "unmarshal" /\ fatalAt' = fatalAt
    /\ UNCHANGED <<changelogResp, releases, changelog, locals, written>>

\* r2c.go:215-218: the body is a JSON array of tags, or it is not
Unmarshal ==
    /\ pc = "unmarshal"
    /\ \/ /\ \E tags \in TagLists : releases' = tags
          /\ pc' = "fetchChangelog"
          /\ fatalAt' = fatalAt
       \/ /\ pc' = "fatal"
          /\ fatalAt' = "unmarshal"
          /\ releases' = releases
    /\ UNCHANGED <<tagsResp, changelogResp, changelog, locals, written>>

\* r2c.go:221-224
FetchChangelog ==
    /\ pc = "fetchChangelog"
    /\ \E resp \in Responses :
        /\ changelogResp' = resp
        /\ IF wgetErr(resp)
           THEN pc' = "fatal" /\ fatalAt' = "fetchChangelog"
           ELSE pc' = "parse" /\ fatalAt' = fatalAt
    /\ UNCHANGED <<tagsResp, releases, changelog, locals, written>>

\* r2c.go:143-201: scanner.Scan() returns true and the loop body runs
ScanLine ==
    /\ pc = "parse"
    /\ Len(changelog) < MaxLines
    /\ \E text \in Lines :
        LET after == loopBody(releases, locals, text)
        IN  /\ changelog' = Append(changelog, text)
            /\ releases' = after.releases
            /\ locals' = after.locals
    /\ UNCHANGED <<pc, fatalAt, tagsResp, changelogResp, written>>

\* ScanEnd that hands the buffered comment to the store before returning
ScanEndFlushes ==
    /\ pc = "parse"
    /\ pc' = "marshal"
    /\ releases' =
          IF locals.comment # <<>>
          THEN IF locals.fixes
               THEN insertFix(releases, locals.release, locals.name, locals.comment)
               ELSE insertChange(releases, locals.release, locals.name,
                                 locals.comment)
          ELSE releases
    /\ UNCHANGED <<fatalAt, tagsResp, changelogResp, changelog, locals, written>>

\* r2c.go:143, 202: scanner.Scan() returns false and parseChangelog returns
ScanEnd ==
    /\ pc = "parse"
    /\ pc' = "marshal"
    /\ UNCHANGED <<fatalAt, tagsResp, changelogResp, releases, changelog,
                   locals, written>>

\* r2c.go:235-238
Marshal ==
    /\ pc = "marshal"
    /\ \/ pc' = "write" /\ fatalAt' = fatalAt
       \/ pc' = "fatal" /\ fatalAt' = "marshal"
    /\ UNCHANGED <<tagsResp, changelogResp, releases, changelog, locals,
                   written>>

\* r2c.go:241-244
WriteFile ==
    /\ pc = "write"
    /\ \/ pc' = "done" /\ written' = TRUE /\ fatalAt' = fatalAt
       \/ pc' = "fatal" /\ fatalAt' = "write" /\ written' = written
    /\ UNCHANGED <<tagsResp, changelogResp, releases, changelog, locals>>

Next ==
    \/ FetchTags
    \/ Unmarshal
    \/ FetchChangelog
    \/ ScanLine
    \/ ScanEnd
    \/ Marshal
    \/ WriteFile

Spec == Init /\ [][Next]_vars

(***************************************************************************)
(* Further inputs.  The same program is run on other tag lists and other   *)
(* changelog lines: Unmarshal and ScanLine with the set they draw from as  *)
(* a parameter.                                                            *)
(***************************************************************************)
\* r2c.go:215-218 with the tag arrays of `tagLists`
UnmarshalOf(tagLists) ==
    /\ pc = "unmarshal"
    /\ \/ /\ \E tags \in tagLists : releases' = tags
          /\ pc' = "fetchChangelog"
          /\ fatalAt' = fatalAt
       \/ /\ pc' = "fatal"
          /\ fatalAt' = "unmarshal"
          /\ releases' = releases
    /\ UNCHANGED <<tagsResp, changelogResp, changelog, locals, written>>

\* r2c.go:143-201 with the lines of `lines`, at most `max` of them
ScanLineOf(lines, max) ==
    /\ pc = "parse"
    /\ Len(changelog) < max
    /\ \E text \in lines :
        LET after == loopBody(releases, locals, text)
        IN  /\ changelog' = Append(changelog, text)
            /\ releases' = after.releases
            /\ locals' = after.locals
    /\ UNCHANGED <<pc, fatalAt, tagsResp, changelogResp, written>>

v2202 == <<"v","2","2",".","0",".","2">>
v2203 == <<"v","2","2",".","0",".","3">>

L_master   == <<"#","#"," ","m","a","s","t","e","r">>
L_two      == <<"#","#"," ","j","e","s","t"," ","2","2",".","0",".","2"," ","&","&"," ","2","2",".","0",".","3">>
L_indented == <<" "," ","*"," ","i","n","d","e","n","t","e","d">>
L_spaces   == <<" "," "," ">>

(***************************************************************************)
(* Headings with no version and with two versions, indented and            *)
(* whitespace-only lines; stores that hold a release named "v" or "".      *)
(***************************************************************************)
TagListsB ==
    { <<Tag(<<"v">>, "d")>>,
      <<Tag(v2202, "f"), Tag(v2203, "g")>>,
      <<Tag(v2202, "f"), Tag(<<"v">>, "d")>>,
      <<Tag(<<>>, "e"), Tag(v2203, "g")>> }

LinesB ==
    {L_master, L_two, L_Fixes, L_first, L_second, L_indented, L_spaces}

UnmarshalB == UnmarshalOf(TagListsB)

ScanLineB == ScanLineOf(LinesB, MaxLines)

NextB ==
    \/ FetchTags
    \/ UnmarshalB
    \/ FetchChangelog
    \/ ScanLineB
    \/ ScanEnd
    \/ Marshal
    \/ WriteFile

SpecB == Init /\ [][NextB]_vars

(***************************************************************************)
(* Category headings of every kind and boundary lines that reset nothing.  *)
(***************************************************************************)
L_Features == <<"#","#","#"," ","F","e","a","t","u","r","e","s">>
L_Chore    == <<"#","#","#"," ","C","h","o","r","e"," ","&"," ","M","a","i","n","t","e","n","a","n","c","e">>
L_FeatFix  == <<"#","#","#"," ","F","e","a","t","u","r","e","s"," ","a","n","d"," ","F","i","x","e","s">>
L_Title    == <<"#"," ","C","h","a","n","g","e","l","o","g">>
L_bold     == <<"*","b","o","l","d","*">>

TagListsC ==
    { <<Tag(v24, "a")>>,
      <<Tag(v24, "a"), Tag(v23, "b")>> }

LinesC ==
    {L_jest24, L_jest23, L_Fixes, L_Features, L_Chore, L_FeatFix, L_Other,
     L_Title, L_bold, L_first}

UnmarshalC == UnmarshalOf(TagListsC)

ScanLineC == ScanLineOf(LinesC, MaxLines)

NextC ==
    \/ FetchTags
    \/ UnmarshalC
    \/ FetchChangelog
    \/ ScanLineC
    \/ ScanEnd
    \/ Marshal
    \/ WriteFile

SpecC == Init /\ [][NextC]_vars

(***************************************************************************)
(* Two headings with different texts and the same version.                 *)
(***************************************************************************)
\* number of lines the scanner returns when the lines are those of LinesD
MaxLinesD == 5

L_alt24 == <<"#","#"," ","2","4",".","0",".","0"," ","f","i","n","a","l">>

TagListsD ==
    { <<Tag(v24, "a")>>,
      <<Tag(v23, "b"), Tag(v24, "a")>> }

LinesD == {L_jest24, L_alt24, L_fixed, L_first}

UnmarshalD == UnmarshalOf(TagListsD)

ScanLineD == ScanLineOf(LinesD, MaxLinesD)

NextD ==
    \/ FetchTags
    \/ UnmarshalD
    \/ FetchChangelog
    \/ ScanLineD
    \/ ScanEnd
    \/ Marshal
    \/ WriteFile

SpecD == Init /\ [][NextD]_vars

(***************************************************************************)
(* Vocabulary of the properties                                            *)
(***************************************************************************)
\* both fetches were answered with a success status
Fetched2xx == tagsResp = "2xx" /\ changelogResp = "2xx"

\* parseChangelog has returned
ParseReturned ==
    \/ pc \in {"marshal", "write", "done"}
    \/ pc = "fatal" /\ fatalAt \in {"marshal", "write"}

T_fixed  == <<"f","i","x","e","d"," ","t","h","e"," ","t","h","i","n","g">>
T_first  == <<"f","i","r","s","t"," ","l","i","n","e">>
T_second == <<"s","e","c","o","n","d"," ","l","i","n","e">>
T_jest24 == <<"j","e","s","t"," ","2","4",".","0",".","0">>
FirstSecond == T_first \o <<"\n">> \o T_second

IsReleaseHeading(text) == HasPrefix(text, 3, <<"#", "#", " ">>)
\* the line starts with '#' or '*'
IsBoundary(text) == Len(text) > 0 /\ text[1] \in {"#", "*"}
HasNotes(r) == r.ReleaseNotes # NilNotes
NoNotesAnywhere == \A i \in DOMAIN releases : ~HasNotes(releases[i])
Count(q, x) == Cardinality({j \in DOMAIN q : q[j] = x})
\* a step of the scanner loop that consumed one line
Scanned == pc = "parse" /\ Len(changelog') = Len(changelog) + 1
LastLine(log) == log[Len(log)]
\* the category sequence that a flush under the flags of l appends to
ActiveSeq(n, l) ==
    IF l.fixes THEN n.Fixes
    ELSE IF l.features THEN n.Features
    ELSE IF l.maintenance THEN n.Maintenance
    ELSE n.Changes

(***************************************************************************)
(* C1: parsing exactly "## jest 24.0.0", "### Fixes", "* fixed the thing"  *)
(* leaves every release named v24.0.0 with exactly one fixes entry,        *)
(* "fixed the thing", and no other entry, and leaves every other release   *)
(* (so a store without v24.0.0) unchanged.                                 *)
(***************************************************************************)
C1_SingleFixAttached ==
    (Fetched2xx /\ ParseReturned /\ changelog = <<L_jest24, L_Fixes, L_fixed>>) =>
        \A i \in DOMAIN releases :
            IF releases[i].Name = v24
            THEN /\ HasNotes(releases[i])
                 /\ releases[i].ReleaseNotes[1] =
                        [EmptyNotes EXCEPT !.ReleaseName = T_jest24,
                                           !.Version = v24,
                                           !.Fixes = <<T_fixed>>]
            ELSE ~HasNotes(releases[i])

(***************************************************************************)
(* C2: when "* first line" is immediately followed by "second line" (and   *)
(* the block ends there) in a section whose version names a stored         *)
(* release, that release's active category holds exactly one entry         *)
(* "first line\nsecond line" once parsing has returned.                    *)
(***************************************************************************)
\* the block "* first line" / "second line" starts at line k and ends at k+1
C2_BlockAt(k) ==
    /\ k + 1 <= Len(changelog)
    /\ changelog[k] = L_first
    /\ changelog[k + 1] = L_second
    /\ k + 2 <= Len(changelog) => IsBoundary(changelog[k + 2])

C2_MultiLineBullet ==
    (Fetched2xx /\ ParseReturned) =>
        \A k \in DOMAIN changelog :
            LET atBullet == parseChangelog(<<>>, SubSeq(changelog, 1, k)).locals
            IN  ( /\ C2_BlockAt(k)
                  /\ \A j \in DOMAIN changelog : C2_BlockAt(j) => j = k
                  /\ validVersionMatchString(atBullet.release) )
                => \A i \in DOMAIN releases :
                      releases[i].Name = atBullet.name =>
                          /\ HasNotes(releases[i])
                          /\ Count(ActiveSeq(releases[i].ReleaseNotes[1], atBullet),
                                   FirstSecond) = 1

(***************************************************************************)
(* C3: a changelog without any line starting with "## " leaves the store   *)
(* unchanged: no release has releaseNotes after parsing.                   *)
(***************************************************************************)
C3_NoHeadingNoNotes ==
    ( /\ Fetched2xx
      /\ ParseReturned
      /\ \A k \in DOMAIN changelog : ~IsReleaseHeading(changelog[k]) )
        => NoNotesAnywhere

(***************************************************************************)
(* C4: while parsing, the store keeps its releases, their order and their  *)
(* name, zipballUrl, tarballUrl and commit; only releaseNotes can change,  *)
(* and a step whose version tag names no release changes nothing.          *)
(***************************************************************************)
C4_OnlyNotesChange ==
    [][ pc = "parse" =>
          /\ DOMAIN releases' = DOMAIN releases
          /\ \A i \in DOMAIN releases :
                [releases'[i] EXCEPT !.ReleaseNotes = NilNotes] =
                [releases[i] EXCEPT !.ReleaseNotes = NilNotes]
          /\ (\A i \in DOMAIN releases : releases[i].Name # locals.name)
                => releases' = releases ]_vars

\* some release got notes, and a block of a version without a tag was
\* flushed (closed by a later boundary line) in the same run
C4_Witness ==
    /\ pc = "parse"
    /\ \E i \in DOMAIN releases : HasNotes(releases[i])
    /\ \A i \in DOMAIN releases : releases[i].Name # v23
    /\ \E k \in DOMAIN changelog :
          /\ k + 2 <= Len(changelog)
          /\ changelog[k] = L_jest23
          /\ changelog[k + 1] = L_first
          /\ IsBoundary(changelog[k + 2])

(***************************************************************************)
(* C5: a network failure of either fetch (transport error, failed read or  *)
(* non-2xx status) is fatal at that fetch: nothing is deserialized or      *)
(* parsed afterwards and r2c.json is not written.                          *)
(***************************************************************************)
NetworkFailures == {"transportError", "readError", "non2xx"}

C5_NetworkFailureFatal ==
    /\ tagsResp \in NetworkFailures =>
          /\ pc = "fatal" /\ fatalAt = "fetchTags"
          /\ releases = <<>> /\ changelog = <<>> /\ ~written
    /\ changelogResp \in NetworkFailures =>
          /\ pc = "fatal" /\ fatalAt = "fetchChangelog"
          /\ changelog = <<>> /\ ~written

(***************************************************************************)
(* C6: the steps run in the order fetch tags, deserialize, fetch           *)
(* changelog, parse, serialize, write; r2c.json is written only by the     *)
(* write step, reached after every earlier step returned without error;    *)
(* a step that returns an error ends the process there, and nothing runs   *)
(* after it.                                                               *)
(***************************************************************************)
PipelineOrder ==
    { <<"fetchTags", "unmarshal">>, <<"unmarshal", "fetchChangelog">>,
      <<"fetchChangelog", "parse">>, <<"parse", "parse">>,
      <<"parse", "marshal">>, <<"marshal", "write">>, <<"write", "done">> }

C7_NoFlushAtEnd ==
    [][ ( /\ pc = "parse"
          /\ \/ pc' # "parse"
             \/ Scanned /\ ~IsBoundary(LastLine(changelog')) )
        => releases' = releases ]_vars

\* parsing has returned with the last bullet block of a tagged version
\* still buffered and in no category of its release
C7_Witness ==
    /\ ParseReturned
    /\ locals.comment = FirstSecond
    /\ \E i \in DOMAIN releases :
          /\ releases[i].Name = locals.name
          /\ ~HasNotes(releases[i])

(***************************************************************************)
(* C8: a step of the parser changes only releases whose name equals the    *)
(* current version tag, and a flush changes every such release: none when  *)
(* the tag is absent, exactly the matching one when it is present once.    *)
(***************************************************************************)
C8_ExactNameMatch ==
    [][ pc = "parse" =>
          /\ \A i \in DOMAIN releases :
                releases'[i] # releases[i] => releases[i].Name = locals.name
          /\ (Scanned /\ IsBoundary(LastLine(changelog')) /\ locals.comment # <<>>)
                => \A i \in DOMAIN releases :
                      releases[i].Name = locals.name => releases'[i] # releases[i]
       ]_vars

\* of two releases the one named by the section got the block, the other
\* nothing
C8_Witness ==
    /\ pc = "parse"
    /\ Len(releases) = 2
    /\ releases[1].Name = v24 /\ releases[2].Name = v23
    /\ ~HasNotes(releases[1])
    /\ HasNotes(releases[2])
    /\ releases[2].ReleaseNotes[1].Changes = <<T_first>>

(***************************************************************************)
(* C9: every category sequence is append-only while parsing: a step        *)
(* leaves it as it is or appends the buffered comment at its end, so the   *)
(* entries stand in the order in which their blocks occur in the           *)
(* changelog.                                                              *)
(***************************************************************************)
C9_Categories == {"Fixes", "Features", "Maintenance", "Changes"}

C9_AppendOnly ==
    [][ pc = "parse" =>
          \A i \in DOMAIN releases : \A c \in C9_Categories :
              LET old == notesOf(releases[i])[c]
                  new == notesOf(releases'[i])[c]
              IN  new = old \/ new = Append(old, locals.comment) ]_vars

\* two different blocks of one section stand in document order
C9_Witness ==
    /\ pc = "parse"
    /\ \E i \in DOMAIN releases :
          /\ HasNotes(releases[i])
          /\ releases[i].ReleaseNotes[1].Changes = <<T_fixed, T_first>>
    /\ \E k \in DOMAIN changelog :
          /\ k + 1 <= Len(changelog)
          /\ changelog[k] = L_fixed
          /\ changelog[k + 1] = L_first

(***************************************************************************)
(* C10: a release heading that immediately follows a release heading       *)
(* attaches nothing: the step that reads the second heading leaves the     *)
(* store unchanged, so the first heading's section has no entry.           *)
(***************************************************************************)
C10_ConsecutiveHeadings ==
    [][ ( /\ Scanned
          /\ Len(changelog) > 0
          /\ IsReleaseHeading(LastLine(changelog))
          /\ IsReleaseHeading(LastLine(changelog')) )
        => releases' = releases ]_vars

\* two headings in a row after a flushed block; the release of the first
\* heading is in the store and has no notes
C10_Witness ==
    /\ pc = "parse"
    /\ changelog = <<L_jest23, L_first, L_jest24, L_jest23>>
    /\ \E i \in DOMAIN releases : releases[i].Name = v24 /\ ~HasNotes(releases[i])
    /\ \E i \in DOMAIN releases : releases[i].Name = v23 /\ HasNotes(releases[i])

(***************************************************************************)
(* C11: while the current release heading has no version, nothing of its   *)
(* section is attached to any release: a step taken under such a heading   *)
(* (category heading, bullet, continuation, or the next release heading    *)
(* that closes the section) leaves the store unchanged, also when the      *)
(* store holds a release named "v".                                        *)
(***************************************************************************)
\* the scanner stands in a section whose release heading has no version
InVersionlessSection ==
    /\ pc = "parse"
    /\ locals.name = <<"v">>
    /\ ~validVersionMatchString(locals.release)

C11_VersionlessSectionIgnored ==
    [][ (Fetched2xx /\ InVersionlessSection) => releases' = releases ]_vars

(***************************************************************************)
(* C12: a line starting with '#' or '*' first flushes a non-empty          *)
(* pendingComment with the heading, the tag and the category in effect     *)
(* before the line: every release named by the old tag gets the old        *)
(* heading, the old tag and the comment at the end of the old category     *)
(* (fixes, features or maintenance when that flag is set, changes          *)
(* otherwise); no other release and no other category changes.             *)
(***************************************************************************)
T_jest23 == <<"j","e","s","t"," ","2","3",".","0",".","0">>

ActiveCategory(l) ==
    IF l.fixes THEN "Fixes"
    ELSE IF l.features THEN "Features"
    ELSE IF l.maintenance THEN "Maintenance"
    ELSE "Changes"

C12_FlushBeforeLine ==
    [][ (Scanned /\ IsBoundary(LastLine(changelog'))) =>
          \A i \in DOMAIN releases :
              IF locals.comment # <<>> /\ releases[i].Name = locals.name
              THEN releases'[i] =
                     [releases[i] EXCEPT !.ReleaseNotes =
                        <<[notesOf(releases[i]) EXCEPT
                              !.ReleaseName = locals.release,
                              !.Version = locals.name,
                              ![ActiveCategory(locals)] =
                                    Append(@, locals.comment)]>>]
              ELSE releases'[i] = releases[i] ]_vars

\* a maintenance block of 23.0.0 closed by the heading of 24.0.0: it is in
\* the maintenance of v23.0.0 and v24.0.0 has nothing
C12_Witness ==
    /\ pc = "parse"
    /\ changelog = <<L_jest23, L_Chore, L_first, L_jest24>>
    /\ Len(releases) = 2
    /\ ~HasNotes(releases[1])
    /\ HasNotes(releases[2])
    /\ releases[2].ReleaseNotes[1] =
          [EmptyNotes EXCEPT !.ReleaseName = T_jest23, !.Version = v23,
                             !.Maintenance = <<T_first>>]

(***************************************************************************)
(* C13: a flush does not clear pendingComment.  It becomes empty only at   *)
(* a release heading or a recognized category heading and is replaced      *)
(* only by a "* " bullet; a boundary line that is none of these ("### "    *)
(* without keyword, another '#' line, '*' without a space) flushes the     *)
(* buffered block and leaves it buffered, so the next boundary line        *)
(* flushes the same text again into the same release and category.         *)
(***************************************************************************)
IsRecognizedCategory(text) ==
    /\ HasPrefix(text, 4, <<"#", "#", "#", " ">>)
    /\ \/ Contains(text, <<"F","i","x","e","s">>)
       \/ Contains(text, <<"F","e","a","t","u","r","e","s">>)
       \/ Contains(text, <<"C","h","o","r","e"," ","&"," ",
                           "M","a","i","n","t","e","n","a","n","c","e">>)

IsBullet(text) == HasPrefix(text, 2, <<"*", " ">>)

\* a boundary line that neither clears nor replaces the comment
ResetsNothing(text) ==
    /\ IsBoundary(text)
    /\ ~IsReleaseHeading(text)
    /\ ~IsRecognizedCategory(text)
    /\ ~IsBullet(text)

C13_FlushKeepsComment ==
    [][ Scanned =>
          LET text == LastLine(changelog')
          IN  /\ (ResetsNothing(text) /\ locals.comment # <<>>) =>
                    /\ locals' = locals
                    /\ \A i \in DOMAIN releases :
                          releases[i].Name = locals.name =>
                              notesOf(releases'[i])[ActiveCategory(locals)] =
                                  Append(notesOf(releases[i])[ActiveCategory(locals)],
                                         locals.comment)
              /\ (locals.comment # <<>> /\ locals'.comment = <<>>) =>
                    IsReleaseHeading(text) \/ IsRecognizedCategory(text)
              /\ (IsBoundary(text) /\ locals'.comment \notin {<<>>, locals.comment})
                    => IsBullet(text) /\ locals'.comment = SubSeq(text, 3, Len(text))
      ]_vars

\* one block, flushed at "### Other" and again at "*bold*": two equal entries
C13_Witness ==
    /\ pc = "parse"
    /\ changelog = <<L_jest24, L_first, L_Other, L_bold>>
    /\ locals.comment = T_first
    /\ HasNotes(releases[1])
    /\ releases[1].ReleaseNotes[1].Changes = <<T_first, T_first>>

(***************************************************************************)
(* C15: in a section whose heading has a version, a "### " line sets the   *)
(* category to Fixes if it contains "Fixes", else to Features if it        *)
(* contains "Features", else to Maintenance if it contains "Chore &        *)
(* Maintenance", and clears pendingComment; a "### " line with none of     *)
(* the three leaves the category (and the comment) as they were.           *)
(***************************************************************************)
Flags(l) == <<l.fixes, l.features, l.maintenance>>

C15_CategoryHeading ==
    [][ ( /\ Scanned
          /\ validVersionMatchString(locals.release)
          /\ HasPrefix(LastLine(changelog'), 4, <<"#", "#", "#", " ">>) ) =>
          LET text == LastLine(changelog')
          IN  /\ locals'.release = locals.release /\ locals'.name = locals.name
              /\ IF Contains(text, <<"F","i","x","e","s">>)
                 THEN Flags(locals') = <<TRUE, FALSE, FALSE>>
                      /\ locals'.comment = <<>>
                 ELSE IF Contains(text, <<"F","e","a","t","u","r","e","s">>)
                 THEN Flags(locals') = <<FALSE, TRUE, FALSE>>
                      /\ locals'.comment = <<>>
                 ELSE IF Contains(text, <<"C","h","o","r","e"," ","&"," ",
                                  "M","a","i","n","t","e","n","a","n","c","e">>)
                 THEN Flags(locals') = <<FALSE, FALSE, TRUE>>
                      /\ locals'.comment = <<>>
                 ELSE locals' = locals
              /\ text = L_FeatFix => locals'.fixes /\ ~locals'.features
      ]_vars

\* under Features a heading with two keywords chose Fixes and cleared the
\* buffered bullet
C15_Witness ==
    /\ pc = "parse"
    /\ changelog = <<L_jest24, L_Features, L_first, L_FeatFix>>
    /\ locals.fixes /\ ~locals.features /\ locals.comment = <<>>

(***************************************************************************)
(* C14: a "## " line sets the heading to the rest of the line, the tag to  *)
(* "v" followed by the first version of that rest ("v" alone when there    *)
(* is none), and resets pendingComment and the flags.  The heading         *)
(* "jest 22.0.2 && 22.0.3" gives the tag v22.0.2: the release v22.0.3      *)
(* never gets an entry.                                                    *)
(***************************************************************************)
T_master == <<"m","a","s","t","e","r">>
T_two    == <<"j","e","s","t"," ","2","2",".","0",".","2"," ","&","&"," ","2","2",".","0",".","3">>

C14_ReleaseHeading ==
    /\ [][ (Scanned /\ IsReleaseHeading(LastLine(changelog'))) =>
             LET text == LastLine(changelog')
             IN  /\ locals'.release = SubSeq(text, 4, Len(text))
                 /\ locals'.comment = <<>>
                 /\ Flags(locals') = <<FALSE, FALSE, FALSE>>
                 /\ text = L_two => locals'.name = v2202
                 /\ text = L_master => locals'.name = <<"v">> ]_vars
    /\ [](\A i \in DOMAIN releases :
             releases[i].Name = v2203 => ~HasNotes(releases[i]))

\* a block under the heading of two versions reached v22.0.2 only
C14_Witness ==
    /\ pc = "parse"
    /\ Len(releases) = 2
    /\ releases[1].Name = v2202 /\ releases[2].Name = v2203
    /\ HasNotes(releases[1])
    /\ releases[1].ReleaseNotes[1] =
          [EmptyNotes EXCEPT !.ReleaseName = T_two, !.Version = v2202,
                             !.Changes = <<T_first>>]
    /\ ~HasNotes(releases[2])

(***************************************************************************)
(* C16: a flush that matches a release creates its releaseNotes if         *)
(* absent, sets releaseName to the current heading and version to the      *)
(* current tag, and keeps every entry already stored.  Two sections        *)
(* "## jest 24.0.0" and "## 24.0.0 final" both reach v24.0.0: it keeps     *)
(* the entries of both and its releaseName is the heading of the section   *)
(* that flushed last.                                                      *)
(***************************************************************************)
T_alt24 == <<"2","4",".","0",".","0"," ","f","i","n","a","l">>

IsPrefix(p, q) == Len(p) <= Len(q) /\ SubSeq(q, 1, Len(p)) = p

\* the five-line changelogs with one block in each of two sections of 24.0.0
C16_TwoSections ==
    /\ Len(changelog) = 5
    /\ changelog[1] = L_jest24 /\ IsBullet(changelog[2])
    /\ changelog[3] = L_alt24 /\ IsBullet(changelog[4])

C16_LastHeadingWins ==
    /\ [][ Scanned =>
             \A i \in DOMAIN releases :
                 releases'[i] # releases[i] =>
                     /\ HasNotes(releases'[i])
                     /\ releases'[i].ReleaseNotes[1].ReleaseName = locals.release
                     /\ releases'[i].ReleaseNotes[1].Version = locals.name
                     /\ \A c \in C9_Categories :
                           IsPrefix(notesOf(releases[i])[c],
                                    releases'[i].ReleaseNotes[1][c]) ]_vars
    /\ [](C16_TwoSections =>
             \A i \in DOMAIN releases :
                 releases[i].Name = v24 =>
                     /\ HasNotes(releases[i])
                     /\ releases[i].ReleaseNotes[1] =
                           [EmptyNotes EXCEPT
                               !.ReleaseName = T_alt24,
                               !.Version = v24,
                               !.Changes = <<SubSeq(changelog[2], 3, Len(changelog[2])),
                                             SubSeq(changelog[4], 3, Len(changelog[4]))>>])

\* v24.0.0 holds the block of "jest 24.0.0" and the block of "24.0.0 final"
\* and carries the second heading
C16_Witness ==
    /\ pc = "parse"
    /\ changelog = <<L_jest24, L_fixed, L_alt24, L_first, L_jest24>>
    /\ \E i \in DOMAIN releases :
          /\ releases[i].Name = v24
          /\ HasNotes(releases[i])
          /\ releases[i].ReleaseNotes[1].ReleaseName = T_alt24
          /\ releases[i].ReleaseNotes[1].Changes = <<T_fixed, T_first>>

(***************************************************************************)
(* C17: every entry stored in a named release is one bullet-initiated      *)
(* block: it starts with the remainder of a "* " bullet line of the        *)
(* changelog; none starts with a newline or holds only continuation text.  *)
(***************************************************************************)
C17_EntriesStartWithBullet ==
    Fetched2xx =>
        \A i \in DOMAIN releases : \A c \in C9_Categories :
            \A j \in DOMAIN notesOf(releases[i])[c] :
                releases[i].Name # <<>> =>
                LET entry == notesOf(releases[i])[c][j]
                IN  /\ entry # <<>>
                    /\ entry[1] # "\n"
                    /\ \E k \in DOMAIN changelog :
                          /\ IsBullet(changelog[k])
                          /\ IsPrefix(SubSeq(changelog[k], 3, Len(changelog[k])),
                                      entry)

(***************************************************************************)
(* C18 as claimed: a line is classified by its text trimmed on both        *)
(* sides: a blank line is skipped, an indented "## ", "### " or "* " line  *)
(* is a heading or a bullet, and only a trimmed line that starts with      *)
(* neither '#' nor '*' is a continuation.                                  *)
(***************************************************************************)
\* the step appended the line to the buffered comment
IsContinuationStep ==
    /\ releases' = releases
    /\ locals' = [locals EXCEPT
                    !.comment = @ \o <<"\n">> \o TrimSpace(LastLine(changelog'))]

C18_TrimmedBeforeClassified ==
    [][ (Fetched2xx /\ Scanned) =>
          LET line == TrimSpace(LastLine(changelog'))
          IN  /\ line = <<>> => (locals' = locals /\ releases' = releases)
              /\ (line # <<>> /\ ~IsBoundary(line)) => IsContinuationStep
              /\ (IsBoundary(line) /\ validVersionMatchString(locals.release)
                    /\ IsBullet(line))
                    => locals'.comment = SubSeq(line, 3, Len(line))
              /\ (IsBoundary(line) /\ IsReleaseHeading(line))
                    => locals'.release = SubSeq(line, 4, Len(line)) ]_vars

(***************************************************************************)
(* C18 as amended: a line is classified by its text trimmed on the right   *)
(* only: a line that is then empty is skipped; a line whose first          *)
(* character is neither '#' nor '*' (so every indented line, whatever      *)
(* follows the indentation) is a continuation, appended trimmed on both    *)
(* sides; only a line whose first character is '#' or '*' is a heading or  *)
(* a bullet.                                                               *)
(***************************************************************************)
T_indentedBullet == <<"*"," ","i","n","d","e","n","t","e","d">>

C18_TrimmedOnTheRightOnly ==
    [][ Scanned =>
          LET line == TrimRight(LastLine(changelog'), Cutset)
          IN  /\ line = <<>> => (locals' = locals /\ releases' = releases)
              /\ (line # <<>> /\ ~IsBoundary(line)) => IsContinuationStep
              /\ (IsBoundary(line) /\ validVersionMatchString(locals.release)
                    /\ IsBullet(line))
                    => locals'.comment = SubSeq(line, 3, Len(line))
              /\ (IsBoundary(line) /\ IsReleaseHeading(line))
                    => locals'.release = SubSeq(line, 4, Len(line)) ]_vars

\* an indented bullet after a bullet was appended to it, a whitespace-only
\* line was skipped
C18_Witness ==
    /\ pc = "parse"
    /\ changelog = <<L_two, L_first, L_indented, L_spaces>>
    /\ locals.comment = T_first \o <<"\n">> \o T_indentedBullet

(***************************************************************************)
(* C19: from a store without notes, after any prefix of the changelog      *)
(* every release that has releaseNotes has version equal to its own name,  *)
(* a name that is "v" followed by the first version of its releaseName     *)
(* unless the name is "" or "v", and at least one non-empty category.      *)
(***************************************************************************)
C19_NotesConsistent ==
    \A i \in DOMAIN releases :
        HasNotes(releases[i]) =>
            LET n == releases[i].ReleaseNotes[1]
            IN  /\ n.Version = releases[i].Name
                /\ \/ releases[i].Name \in {<<>>, <<"v">>}
                   \/ releases[i].Name = <<"v">> \o validVersionFind(n.ReleaseName)
                /\ \E c \in C9_Categories : n[c] # <<>>

\* v22.0.2 got a block under the two-version heading, in a store that also
\* holds a release named "v"
C19_Witness ==
    /\ pc = "parse"
    /\ Len(releases) = 2
    /\ releases[1].Name = v2202 /\ HasNotes(releases[1])
    /\ releases[1].ReleaseNotes[1].ReleaseName = T_two
    /\ releases[1].ReleaseNotes[1].Version = v2202
    /\ releases[1].ReleaseNotes[1].Changes = <<T_first>>
    /\ releases[2].Name = <<"v">>

(***************************************************************************)
(* C20: in every parser state at most one of fixes, features, maintenance  *)
(* is true; a flag is true or pendingComment holds bullet text only while  *)
(* the current heading has a version, and then the tag is "v" followed by  *)
(* that heading's first version; after a heading without version all      *)
(* three flags are false.                                                  *)
(***************************************************************************)
\* pendingComment starts with the text of a bullet, not with a continuation
HoldsBulletText(l) == l.comment # <<>> /\ l.comment[1] # "\n"

=============================================================================
